---------------------------- MODULE Spec2Model ----------------------------
(***************************************************************************)
(* Kapperchino/jet: the membership reconciler of package cluster           *)
(* (src/cluster/application.go) and the topic state machine of package     *)
(* main (src/unnamed/part_000).                                            *)
(*                                                                         *)
(* The reconciler part models ONE node: its ShardInfo (member map, leader),*)
(* its own MemberInfo, the observation channel RaftChan, and the part of   *)
(* the consensus engine the handlers read or call (the server              *)
(* configuration, RemoveServer, Apply).  The outcome of every engine call  *)
(* is an input of the handler that makes it.                               *)
(***************************************************************************)
EXTENDS Integers, Sequences, FiniteSets, TLC

(***************************************************************************)
(* Bounds of the model.                                                    *)
(***************************************************************************)
\* Length of RaftChan in the model (the code's channel holds 50).
MaxChan == 1
\* The per-peer counters of issued removals saturate here.
MaxCount == 2

\* The largest partition count asked of CreateTopic.
MaxPartitions == 2
\* The most messages in one Publish.
MaxMessages == 2

\* The failure detector's threshold in seconds: application.go line 114.
HeartbeatThreshold == 10

NodeIds == {"n1", "n2", "n3"}
\* This node (nodeName of InitClusterState).
Self == "n1"
Peers == NodeIds \ {Self}
\* The instants (seconds) at which the model looks at the clock: the start,
\* the threshold, and one second past it.
Times == {0, HeartbeatThreshold, HeartbeatThreshold + 1}

AddressOf(n) == "addr-" \o n

TopicNames == {"t", "u"}
Keys == {"a", "b"}

VARIABLES
    memberMap,    \* ShardInfo.MemberMap: node id -> MemberInfo
    leader,       \* ShardInfo.leader
    memberInfo,   \* ShardState.MemberInfo, this node's own entry
    raftChan,     \* ShardState.RaftChan
    servers,      \* the engine's configuration: Raft.GetConfiguration().Servers
    lastContact,  \* the engine's last successful contact with each peer
    now,          \* time.Now(), in seconds
    missed,       \* an observation was dropped on a full channel (history)
    ledger,       \* per peer: removals issued since it last joined (history)
    last,         \* what the reconciler's latest iteration did (history)
    observer,     \* the observer's registration with the engine
    loop          \* the goroutine running onRaftUpdates

\* The reconciler task: its registration and its goroutine.
taskVars == <<observer, loop>>

clusterVars == <<memberMap, leader, memberInfo, raftChan, servers,
                 lastContact, now, missed, ledger, last, observer, loop>>

VARIABLES
    topics,       \* nodeState.topics: topic name -> topic
    dirs,         \* the directories os.Mkdir has made
    fsmStatus,    \* "running", or how the process ended
    created,      \* partitions asked for when each topic was stored (history)
    lastFsm,      \* what the latest call on nodeState did (history)
    members,      \* the state machine's membership table: node id -> member
    replica,      \* a second, independently initialized nodeState
    lastCall      \* the latest membership command, RPC or restore (history)

\* What the calls on the first nodeState leave alone.
sideVars == <<members, replica, lastCall>>

fsmVars == <<topics, dirs, fsmStatus, created, lastFsm, members, replica,
             lastCall>>

vars == <<memberMap, leader, memberInfo, raftChan, servers, lastContact, now,
          missed, ledger, last, observer, loop, topics, dirs, fsmStatus,
          created, lastFsm, members, replica, lastCall>>

(***************************************************************************)
(* Maps (haxmap.Map, sync.Map) as functions on the set of their keys.      *)
(***************************************************************************)
MapSet(m, k, v) == [x \in (DOMAIN m) \cup {k} |-> IF x = k THEN v ELSE m[x]]
MapDel(m, k) == [x \in (DOMAIN m) \ {k} |-> m[x]]
MapHas(m, k) == k \in DOMAIN m
EmptyMap == [x \in {} |-> 0]

MemberInfoOf(id, isLeader, address) ==
    [NodeId |-> id, IsLeader |-> isLeader, Address |-> address]

(***************************************************************************)
(* Observations (raft.Observation.Data).                                   *)
(***************************************************************************)
RequestVoteRequest == [type |-> "RequestVoteRequest"]
RaftState(s) == [type |-> "RaftState", state |-> s]
PeerObservation(id, removed) ==
    [type |-> "PeerObservation", ID |-> id, Address |-> AddressOf(id),
     Removed |-> removed]
LeaderObservation(id) ==
    [type |-> "LeaderObservation", LeaderID |-> id, LeaderAddr |-> AddressOf(id)]
FailedHeartbeatObservation(id, t) ==
    [type |-> "FailedHeartbeatObservation", PeerID |-> id, LastContact |-> t]

RaftStates == {"Follower", "Candidate", "Leader", "Shutdown"}

\* raft.NewObserver(RaftChan, false, nil): a non-blocking observer, which
\* drops the observation when the channel is full.
Observe(ch, o) == IF Len(ch) < MaxChan THEN Append(ch, o) ELSE ch

(***************************************************************************)
(* A handler works on the record                                           *)
(*   [memberMap, leader, memberInfo, servers, trace]                       *)
(* where trace lists, in the order of the code, the writes to the member   *)
(* map and the engine calls the handler made, with their results.          *)
(***************************************************************************)
\* Results of Raft.RemoveServer(...).Error().
RemoveResults == {"ok", "err"}
\* Results of Raft.Apply(val, time.Second): the submission failed
\* ("raftErr": not leader, timeout, shutdown); it committed and the state
\* machine answered with an error ("fsmErr"), with a value of another type
\* ("invalid"), or with the expected result ("ok").
ApplyResults == {"ok", "raftErr", "fsmErr", "invalid"}

Step(op, id, res) == [op |-> op, id |-> id, res |-> res]

\* getMemberMap().Set(id, info)
Set(st, id, info) ==
    [st EXCEPT !.memberMap = MapSet(@, id, info),
               !.trace = Append(@, Step("Set", id, "done"))]

\* getMemberMap().Del(id)
Del(st, id) ==
    [st EXCEPT !.memberMap = MapDel(@, id),
               !.trace = Append(@, Step("Del", id, "done"))]

\* The command was committed: the submission itself did not fail.
Committed(ar) == ar # "raftErr"
\* The command was committed and the state machine gave the expected result.
Confirmed(ar) == ar = "ok"
\* What ReplicatePeer and RemovePeer return: the error of a failed submission
\* or of an error response; on a response of another type they return err,
\* which is nil at that point.
ReturnsError(ar) == ar \in {"raftErr", "fsmErr"}

ReplicatePeer(st, update, ar) ==
    [st EXCEPT !.trace = Append(@, Step("AddMember", update.ID, ar))]

RemovePeer(st, peerId, ar) ==
    [st EXCEPT !.trace = Append(@, Step("RemoveMember", peerId, ar))]

\* Raft.RemoveServer(id, LastIndex()-1, 0).Error()
RemoveServer(st, peerId, rs) ==
    [st EXCEPT !.servers = IF rs = "ok" THEN @ \ {peerId} ELSE @,
               !.trace = Append(@, Step("RemoveServer", peerId, rs))]

(***************************************************************************)
(* The handlers.                                                           *)
(***************************************************************************)
\* onFailedHeartbeat with the comparison turned round.
onFailedHeartbeat_Inverted(st, update, t, rs, ar) ==
    IF t - update.LastContact < HeartbeatThreshold
    THEN LET s1 == RemoveServer(st, update.PeerID, rs)
         IN  IF rs # "ok"
             THEN s1
             ELSE RemovePeer(Del(s1, update.PeerID), update.PeerID, ar)
    ELSE st

\* onFailedHeartbeat acting at the threshold already.
onFailedHeartbeat_AtThreshold(st, update, t, rs, ar) ==
    IF t - update.LastContact >= HeartbeatThreshold
    THEN LET s1 == RemoveServer(st, update.PeerID, rs)
         IN  IF rs # "ok"
             THEN s1
             ELSE RemovePeer(Del(s1, update.PeerID), update.PeerID, ar)
    ELSE st

onFailedHeartbeat(st, update, t, rs, ar) ==
    IF t - update.LastContact > HeartbeatThreshold
    THEN LET s1 == RemoveServer(st, update.PeerID, rs)
         IN  IF rs # "ok"
             THEN s1
             ELSE RemovePeer(Del(s1, update.PeerID), update.PeerID, ar)
    ELSE st

onPeerUpdate(st, update, ar) ==
    IF update.Removed
    THEN RemovePeer(Del(st, update.ID), update.ID, ar)
    ELSE IF Len(update.ID) = 0
    THEN st
    ELSE IF MapHas(st.memberMap, update.ID)
    THEN st
    ELSE ReplicatePeer(
             Set(st, update.ID,
                 MemberInfoOf(update.ID, FALSE, update.Address)),
             update, ar)

RECURSIVE Backfill(_, _)
\* The loop over the configured servers: each one missing from the map is
\* set directly.
Backfill(st, srv) ==
    IF srv = {} THEN st
    ELSE LET x == CHOOSE y \in srv : TRUE
             s1 == IF MapHas(st.memberMap, x) THEN st
                   ELSE Set(st, x, MemberInfoOf(x, FALSE, AddressOf(x)))
         IN  Backfill(s1, srv \ {x})

\* onLeaderUpdate without line 173: the node keeps its flag when another
\* node becomes leader.
onLeaderUpdate_KeepsFlag(st, update) ==
    IF update.LeaderID = st.memberInfo.NodeId
    THEN [st EXCEPT !.leader = update.LeaderID,
                    !.memberInfo.IsLeader = TRUE]
    ELSE LET s1 == [st EXCEPT !.leader = update.LeaderID]
         IN  IF MapHas(s1.memberMap, update.LeaderID)
             THEN s1
             ELSE Set(Backfill(s1, s1.servers), update.LeaderID,
                      MemberInfoOf(update.LeaderID, TRUE, update.LeaderAddr))

onLeaderUpdate(st, update) ==
    IF update.LeaderID = st.memberInfo.NodeId
    THEN [st EXCEPT !.leader = update.LeaderID,
                    !.memberInfo.IsLeader = TRUE]
    ELSE LET s1 == [st EXCEPT !.memberInfo.IsLeader = FALSE,
                              !.leader = update.LeaderID]
         IN  IF MapHas(s1.memberMap, update.LeaderID)
             THEN s1
             ELSE Set(Backfill(s1, s1.servers), update.LeaderID,
                      MemberInfoOf(update.LeaderID, TRUE, update.LeaderAddr))

\* Only logs.
onStateUpdate(st, state) == st

\* The switch of onRaftUpdates on the observation's type.
Dispatch(st, o, t, rs, ar) ==
    CASE o.type = "RequestVoteRequest" -> st
      [] o.type = "RaftState" -> onStateUpdate(st, o.state)
      [] o.type = "PeerObservation" -> onPeerUpdate(st, o, ar)
      [] o.type = "LeaderObservation" -> onLeaderUpdate(st, o)
      [] o.type = "FailedHeartbeatObservation" ->
             onFailedHeartbeat(st, o, t, rs, ar)

\* GetShardInfo: the response built from the member map and the leader.
GetShardInfo ==
    [MemberAddressMap |->
         [x \in DOMAIN memberMap |->
              [NodeId |-> memberMap[x].NodeId,
               Address |-> memberMap[x].Address]],
     LeaderId |-> leader]

(***************************************************************************)
(* History.                                                                *)
(***************************************************************************)
NoObservation == [type |-> "none"]
\* obs: the observation handled; elapsed: time.Now() - LastContact for a
\* failed heartbeat; preMap: the member map and configured: the servers when
\* the handler started.
NoLast == [obs |-> NoObservation, elapsed |-> 0, trace |-> <<>>,
           preMap |-> EmptyMap, configured |-> {}]

Bump(n) == IF n < MaxCount THEN n + 1 ELSE n

\* cfgRemovals: configuration removals that succeeded, removeMembers:
\* RemoveMember commands issued, both since the peer last joined; departed:
\* the peer has left the configuration and no RemoveMember for it has been
\* committed since.
NewLedger == [cfgRemovals |-> 0, removeMembers |-> 0, departed |-> FALSE]

RECURSIVE Record(_, _)
\* The ledger after the steps of one handler.
Record(lg, trace) ==
    IF trace = <<>> THEN lg
    ELSE LET c == Head(trace)
             l1 == IF c.id \notin Peers THEN lg
                   ELSE IF c.op = "RemoveServer" /\ c.res = "ok"
                   THEN [lg EXCEPT ![c.id].cfgRemovals = Bump(@),
                                   ![c.id].departed = TRUE]
                   ELSE IF c.op = "RemoveMember"
                   THEN [lg EXCEPT ![c.id].removeMembers = Bump(@),
                                   ![c.id].departed =
                                       IF Committed(c.res) THEN FALSE ELSE @]
                   ELSE lg
         IN  Record(l1, Tail(trace))

\* A nodeState as constructed: an empty topic table, nothing on disk.
FreshNodeState == [topics |-> EmptyMap, dirs |-> {}, status |-> "running",
                   result |-> "none"]

\* kind: the call; arg: the node id or topic it names; pre: the table it
\* started from; result: what the state machine returned; submit: how the
\* submission to the engine ended; payload, err: what the RPC returned;
\* outcome: "returned", or "crashed" when the call ended the process;
\* changed: the call changed the topic table or ended the state machine.
NoCall == [kind |-> "none", arg |-> "", pre |-> EmptyMap, result |-> "none",
           submit |-> "none", payload |-> "none", err |-> "none",
           outcome |-> "none", changed |-> FALSE]

(***************************************************************************)
(* The state after construction.                                           *)
(***************************************************************************)
InitCluster ==
    /\ memberMap = MapSet(EmptyMap, Self,
                          MemberInfoOf(Self, FALSE, AddressOf(Self)))
    /\ leader = ""
    /\ memberInfo = MemberInfoOf(Self, FALSE, AddressOf(Self))
    /\ raftChan = <<>>
    /\ servers = {Self}
    /\ lastContact = [p \in Peers |-> 0]
    /\ now = 0
    /\ missed = FALSE
    /\ ledger = [p \in Peers |-> NewLedger]
    /\ last = NoLast
    /\ observer = "registered"
    /\ loop = "running"

InitFsm ==
    /\ topics = EmptyMap
    /\ dirs = {}
    /\ fsmStatus = "running"
    /\ created = EmptyMap
    /\ lastFsm = [kind |-> "none", topic |-> "", count |-> 0,
                  existed |-> FALSE, stored |-> FALSE, result |-> "none",
                  pre |-> EmptyMap]
    /\ members = EmptyMap
    /\ replica = FreshNodeState
    /\ lastCall = NoCall

Init == InitCluster /\ InitFsm

(***************************************************************************)
(* The engine's observer.                                                  *)
(***************************************************************************)
\* Emit with a blocking observer (raft.NewObserver(ch, true, nil)): the
\* engine waits for room on the channel.
Emit_Blocking(ch, o) ==
    /\ Len(ch) < MaxChan
    /\ raftChan' = Append(ch, o)
    /\ missed' = missed

\* The engine observes o on channel ch.
Emit(ch, o) ==
    /\ raftChan' = Observe(ch, o)
    /\ missed' = (missed \/ Len(ch) >= MaxChan)

(***************************************************************************)
(* The reconciler: one iteration of the loop of onRaftUpdates.             *)
(***************************************************************************)
\* rs, ar: the results of the engine calls the handler makes; seen: the
\* observation the engine makes of a removal finds room on the channel (other
\* observations may have filled it while RemoveServer was waiting).
Handle(rs, ar, seen) ==
    /\ loop = "running"
    /\ raftChan # <<>>
    /\ LET o == Head(raftChan)
           st == [memberMap |-> memberMap, leader |-> leader,
                  memberInfo |-> memberInfo, servers |-> servers,
                  trace |-> <<>>]
           s2 == Dispatch(st, o, now, rs, ar)
           gone == servers \ s2.servers
       IN  /\ memberMap' = s2.memberMap
           /\ leader' = s2.leader
           /\ memberInfo' = s2.memberInfo
           /\ servers' = s2.servers
           \* the engine observes the removal it has just made
           /\ IF gone = {}
              THEN raftChan' = Tail(raftChan) /\ missed' = missed
              ELSE IF seen
              THEN Emit(Tail(raftChan),
                        PeerObservation(CHOOSE p \in gone : TRUE, TRUE))
              ELSE raftChan' = Tail(raftChan) /\ missed' = TRUE
           /\ ledger' = Record(ledger, s2.trace)
           /\ last' = [obs |-> o,
                       elapsed |-> IF o.type = "FailedHeartbeatObservation"
                                   THEN now - o.LastContact ELSE 0,
                       trace |-> s2.trace,
                       preMap |-> memberMap, configured |-> servers]
    /\ UNCHANGED <<lastContact, now>>
    /\ UNCHANGED taskVars
    /\ UNCHANGED fsmVars

\* The default branch of the select: no observation is waiting.
Idle ==
    /\ loop = "running"
    /\ raftChan = <<>>
    /\ last' = NoLast
    /\ UNCHANGED <<memberMap, leader, memberInfo, raftChan, servers,
                   lastContact, now, missed, ledger>>
    /\ UNCHANGED taskVars
    /\ UNCHANGED fsmVars

onRaftUpdates ==
    \/ \E rs \in RemoveResults, ar \in ApplyResults, seen \in BOOLEAN :
           Handle(rs, ar, seen)
    \/ Idle

(***************************************************************************)
(* The engine, as far as the reconciler sees it.                           *)
(***************************************************************************)
\* A server joins the configuration.
EngineAddServer(p) ==
    /\ p \notin servers
    /\ servers' = servers \cup {p}
    /\ lastContact' = [lastContact EXCEPT ![p] = now]
    /\ ledger' = [ledger EXCEPT ![p] = NewLedger]
    /\ Emit(raftChan, PeerObservation(p, FALSE))
    /\ last' = NoLast
    /\ UNCHANGED <<memberMap, leader, memberInfo, now>>
    /\ UNCHANGED taskVars
    /\ UNCHANGED fsmVars

\* A server leaves the configuration by another caller's request.
EngineRemoveServer(p) ==
    /\ p \in servers
    /\ servers' = servers \ {p}
    /\ ledger' = [ledger EXCEPT ![p].departed = TRUE]
    /\ Emit(raftChan, PeerObservation(p, TRUE))
    /\ last' = NoLast
    /\ UNCHANGED <<memberMap, leader, memberInfo, lastContact, now>>
    /\ UNCHANGED taskVars
    /\ UNCHANGED fsmVars

EngineLeaderChange(l) ==
    /\ l \in servers
    /\ Emit(raftChan, LeaderObservation(l))
    /\ last' = NoLast
    /\ UNCHANGED <<memberMap, leader, memberInfo, servers, lastContact, now,
                   ledger>>
    /\ UNCHANGED taskVars
    /\ UNCHANGED fsmVars

\* A heartbeat to a configured peer fails.
EngineFailedHeartbeat(p) ==
    /\ p \in servers
    /\ Emit(raftChan, FailedHeartbeatObservation(p, lastContact[p]))
    /\ last' = NoLast
    /\ UNCHANGED <<memberMap, leader, memberInfo, servers, lastContact, now,
                   ledger>>
    /\ UNCHANGED taskVars
    /\ UNCHANGED fsmVars

\* A heartbeat to a configured peer succeeds.
EngineContact(p) ==
    /\ p \in servers
    /\ lastContact[p] # now
    /\ lastContact' = [lastContact EXCEPT ![p] = now]
    /\ last' = NoLast
    /\ UNCHANGED <<memberMap, leader, memberInfo, raftChan, servers, now,
                   missed, ledger>>
    /\ UNCHANGED taskVars
    /\ UNCHANGED fsmVars

\* A vote request or a change of the node's raft state.
EngineOther(o) ==
    /\ Emit(raftChan, o)
    /\ last' = NoLast
    /\ UNCHANGED <<memberMap, leader, memberInfo, servers, lastContact, now,
                   ledger>>
    /\ UNCHANGED taskVars
    /\ UNCHANGED fsmVars

Tick ==
    /\ \E t \in Times : t > now /\ now' = t
    /\ last' = NoLast
    /\ UNCHANGED <<memberMap, leader, memberInfo, raftChan, servers,
                   lastContact, missed, ledger>>
    /\ UNCHANGED taskVars
    /\ UNCHANGED fsmVars

Engine ==
    \/ \E p \in Peers : EngineAddServer(p)
    \/ \E p \in Peers : EngineRemoveServer(p)
    \/ \E l \in NodeIds : EngineLeaderChange(l)
    \/ \E p \in Peers : EngineFailedHeartbeat(p)
    \/ \E p \in Peers : EngineContact(p)
    \/ \E o \in {RequestVoteRequest} \cup {RaftState(s) : s \in RaftStates} :
           EngineOther(o)
    \/ Tick

Next == onRaftUpdates \/ Engine

Spec == Init /\ [][Next]_vars


(***************************************************************************)
(* The topic state machine (nodeState).  Its methods work on the record    *)
(*   [topics, dirs, status, result]                                        *)
(* where result is the value the method returns.                           *)
(***************************************************************************)
Nil == "nil"

\* murmur3.New64() over i zero bytes, Sum64(): a fixed value per length, no
\* two lengths of the model sharing one; the empty input hashes to 0.
Sum64(i) == (i * i * 5 + i * 3) % 64

RECURSIVE FormatUint(_, _)
\* strconv.FormatUint(v, base)
FormatUint(v, base) ==
    LET d == ToString(v % base)
    IN  IF v < base THEN d ELSE FormatUint(v \div base, base) \o d

\* hashring.New(nodes): the ring over the given node names.
HashRingNew(nodes) == nodes

\* CreatePartition numbering from 1.
CreatePartition_OneBased(partitionNum, topic) ==
    [num |-> partitionNum + 1, topic |-> topic, offset |-> 0]

\* The ring lookup of lines 114-118 names identifiers the file does not
\* declare; the partition returned does not depend on it.
CreatePartition(partitionNum, topic) ==
    [num |-> partitionNum, topic |-> topic, offset |-> 0]

RECURSIVE PartitionsUpTo(_, _, _)
\* The loop of CreateTopic: for i := 0; i < n; i++, appending to both slices.
PartitionsUpTo(i, n, acc) ==
    IF i < n
    THEN PartitionsUpTo(i + 1, n,
             [partitions |-> Append(acc.partitions,
                                    CreatePartition(i, acc.name)),
              hashed |-> Append(acc.hashed, FormatUint(Sum64(i), 2)),
              name |-> acc.name])
    ELSE acc

\* mkdirOk: os.Mkdir can make the directory (permissions, disk); it fails
\* anyway when the directory exists.
CreateTopic(st, req, mkdirOk) ==
    IF MapHas(st.topics, req.Topic)
    THEN [st EXCEPT !.result = Nil]
    ELSE IF ~mkdirOk \/ req.Topic \in st.dirs
    THEN [st EXCEPT !.result = Nil]
    ELSE LET built == PartitionsUpTo(0, req.Partitions,
                          [partitions |-> <<>>, hashed |-> <<>>,
                           name |-> req.Topic])
             newTopic == [name |-> req.Topic,
                          partitions |-> built.partitions,
                          hashRing |-> HashRingNew(built.hashed)]
         IN  [st EXCEPT !.dirs = @ \cup {req.Topic},
                        !.topics = MapSet(@, req.Topic, newTopic),
                        !.result = Nil]

\* Publish loads the topic and, for every message, looks its key up in the
\* ring and drops the answer; it writes nothing.  The function ends without
\* a return statement: Nil stands for what it returns there.
Publish(st, req) ==
    IF ~MapHas(st.topics, req.Topic)
    THEN [st EXCEPT !.result = Nil]
    ELSE [st EXCEPT !.result = Nil]

\* proto.Unmarshal: nil, or the error of an entry that does not decode.
Unmarshal(l) == IF l.decodes THEN Nil ELSE "proto: cannot parse"

\* The switch of Apply on the operation's type; Apply returns nil after it.
Switch(st, op) ==
    CASE op.kind = "Publish" -> [st EXCEPT !.result = Nil]
      [] op.kind = "CreateTopic" ->
             [CreateTopic(st, op, op.mkdirOk) EXCEPT !.result = Nil]
      [] op.kind = "CreateConsumer" -> [st EXCEPT !.result = Nil]
      [] op.kind = "Consume" -> [st EXCEPT !.result = Nil]

\* Apply asks err.Error() before anything else: on a nil err that is a nil
\* dereference and the process panics; on a decode error the message is not
\* empty and log.Fatal ends the process.
Apply(st, l) ==
    LET err == Unmarshal(l)
    IN  IF err = Nil
        THEN [st EXCEPT !.status = "panic", !.result = "none"]
        ELSE IF Len(err) # 0
        THEN [st EXCEPT !.status = "fatal", !.result = "none"]
        ELSE Switch(st, l)

(***************************************************************************)
(* The membership commands of the state machine.  ReplicatePeer and       *)
(* RemovePeer submit them and name their result types; nodeState.Apply has *)
(* no case for them.  Their handlers are written here from the design:     *)
(* idempotent upserts and deletes of the shard's membership table.         *)
(***************************************************************************)
\* The addresses a node may be added under.
AddressesOf(n) == {AddressOf(n), "alt-" \o n}

\* AddMember failing for a member that is present.
AddMember_RejectPresent(m, req) ==
    IF MapHas(m, req.NodeId)
    THEN [members |-> m, result |-> "error"]
    ELSE [members |-> MapSet(m, req.NodeId,
                             [NodeId |-> req.NodeId, Address |-> req.Address]),
          result |-> "AddMemberResult"]

\* AddMember(nodeId, address): the member is stored under its node id,
\* replacing the entry it may have.
AddMember(m, req) ==
    [members |-> MapSet(m, req.NodeId,
                        [NodeId |-> req.NodeId, Address |-> req.Address]),
     result |-> "AddMemberResult"]

\* RemoveMember(nodeId): the entry under the node id is deleted, if any.
RemoveMember(m, req) ==
    [members |-> MapDel(m, req.NodeId), result |-> "RemoveMemberResult"]

\* Snapshot returns a nil FSMSnapshot and a nil error: nothing of the state
\* is captured.
Snapshot(st) == Nil

\* Persist closes the sink without writing: the blob is empty.
Persist(snap) == <<>>

\* Restore returns nil without reading the blob: the instance is as before.
Restore(st, blob) == [st EXCEPT !.result = Nil]

RECURSIVE SumOffsets(_)
SumOffsets(parts) ==
    IF parts = <<>> THEN 0 ELSE Head(parts).offset + SumOffsets(Tail(parts))

NodeState == [topics |-> topics, dirs |-> dirs, status |-> fsmStatus,
              result |-> "none"]

WriteOps ==
    {[kind |-> "CreateTopic", Topic |-> t, Partitions |-> n, mkdirOk |-> ok,
      decodes |-> TRUE] :
         t \in TopicNames, n \in 0..MaxPartitions, ok \in BOOLEAN}
    \cup {[kind |-> k, Topic |-> t, decodes |-> TRUE] :
            k \in {"Publish", "CreateConsumer", "Consume"}, t \in TopicNames}
LogEntries == WriteOps \cup {[kind |-> "garbage", decodes |-> FALSE]}

MessageLists ==
    UNION {[1..k -> [Key : Keys]] : k \in 0..MaxMessages}

(***************************************************************************)
(* The RPCs (rpcInterface).  They work on a nodeState record and return    *)
(*   [st, submit, payload, err, outcome]                                   *)
(* st: the nodeState afterwards; payload, err: the two values returned;    *)
(* outcome: "returned", or "crashed" when the call ended in a panic.       *)
(***************************************************************************)
\* How r.raft.Apply(val, time.Second) ends: the entry is committed and
\* applied ("ok"), or res.Error() is one of the engine's errors.
SubmitFailures == {"ErrNotLeader", "ErrEnqueueTimeout", "ErrRaftShutdown"}
SubmitResults == {"ok"} \cup SubmitFailures

\* rafterrors.MarkRetriable(err)
MarkRetriable(err) == "retriable: " \o err
IsRetriable(err) == \E e \in SubmitFailures : err = MarkRetriable(e)

\* The dynamic type of an Apply response; nothing in Apply returns a
\* response other than nil.
TypeOf(v) == IF v = Nil THEN "nil" ELSE v

\* The call after the engine has applied entry l: the process may have ended
\* in Apply; if not, res.Response().(T) panics unless the response is a T.
AfterApply(st, l, T) ==
    LET s2 == Apply(st, l)
    IN  IF s2.status # "running"
        THEN [st |-> s2, submit |-> "ok", payload |-> "none",
              err |-> "none", outcome |-> "crashed"]
        ELSE IF TypeOf(s2.result) # T
        THEN [st |-> s2, submit |-> "ok", payload |-> "none",
              err |-> "none", outcome |-> "crashed"]
        ELSE [st |-> s2, submit |-> "ok", payload |-> s2.result,
              err |-> Nil, outcome |-> "returned"]

\* PublishMessagesInternal passing the engine's error on as it is.
PublishMessagesInternal_Unmarked(st, req, submit) ==
    IF submit # "ok"
    THEN [st |-> st, submit |-> submit, payload |-> Nil,
          err |-> submit, outcome |-> "returned"]
    ELSE AfterApply(st, [kind |-> "Publish", Topic |-> req.Topic,
                         decodes |-> TRUE], "[]*pb.Message")

PublishMessagesInternal(st, req, submit) ==
    IF submit # "ok"
    THEN [st |-> st, submit |-> submit, payload |-> Nil,
          err |-> MarkRetriable(submit), outcome |-> "returned"]
    ELSE AfterApply(st, [kind |-> "Publish", Topic |-> req.Topic,
                         decodes |-> TRUE], "[]*pb.Message")

\* rpcInterface.PublishMessages: the response wraps the messages; with an
\* error it returns nil and the error.
PublishMessages(st, req, submit) ==
    LET r == PublishMessagesInternal(st, req, submit)
    IN  IF r.outcome = "crashed" THEN r
        ELSE IF r.err # Nil THEN [r EXCEPT !.payload = Nil]
        ELSE [r EXCEPT !.payload = "*pb.PublishMessageResponse"]

CreateTopicInternal(st, req, submit, mkdirOk) ==
    IF submit # "ok"
    THEN [st |-> st, submit |-> submit, payload |-> Nil,
          err |-> MarkRetriable(submit), outcome |-> "returned"]
    ELSE AfterApply(st, [kind |-> "CreateTopic", Topic |-> req.Topic,
                         Partitions |-> req.NumPartitions,
                         mkdirOk |-> mkdirOk, decodes |-> TRUE],
                    "*pb.CreateTopicResponse")

\* rpcInterface.CreateTopic
RpcCreateTopic(st, req, submit, mkdirOk) ==
    LET r == CreateTopicInternal(st, req, submit, mkdirOk)
    IN  IF r.outcome = "crashed" THEN r
        ELSE IF r.err # Nil THEN [r EXCEPT !.payload = Nil]
        ELSE r

(***************************************************************************)
(* The operations on nodeState.                                            *)
(***************************************************************************)
\* nodeState.CreateTopic(req)
CallCreateTopic(t, n, mkdirOk) ==
    /\ fsmStatus = "running"
    /\ LET req == [Topic |-> t, Partitions |-> n]
           s2 == CreateTopic(NodeState, req, mkdirOk)
           stored == ~MapHas(topics, t) /\ MapHas(s2.topics, t)
       IN  /\ topics' = s2.topics
           /\ dirs' = s2.dirs
           /\ fsmStatus' = s2.status
           /\ created' = IF stored THEN MapSet(created, t, n) ELSE created
           /\ lastFsm' = [kind |-> "CreateTopic", topic |-> t, count |-> n,
                          existed |-> MapHas(topics, t), stored |-> stored,
                          result |-> s2.result, pre |-> topics]
    /\ UNCHANGED sideVars
    /\ UNCHANGED clusterVars

\* nodeState.Publish(req)
CallPublish(t, msgs) ==
    /\ fsmStatus = "running"
    /\ LET req == [Topic |-> t, Messages |-> msgs]
           s2 == Publish(NodeState, req)
       IN  /\ topics' = s2.topics
           /\ dirs' = s2.dirs
           /\ fsmStatus' = s2.status
           /\ created' = created
           /\ lastFsm' = [kind |-> "Publish", topic |-> t,
                          count |-> Len(msgs),
                          existed |-> MapHas(topics, t), stored |-> FALSE,
                          result |-> s2.result, pre |-> topics]
    /\ UNCHANGED sideVars
    /\ UNCHANGED clusterVars

\* nodeState.Apply(l), called by the engine for a committed entry.
CallApply(l) ==
    /\ fsmStatus = "running"
    /\ LET s2 == Apply(NodeState, l)
       IN  /\ topics' = s2.topics
           /\ dirs' = s2.dirs
           /\ fsmStatus' = s2.status
           /\ created' = created
           /\ lastFsm' = [kind |-> "Apply", topic |-> l.kind, count |-> 0,
                          existed |-> FALSE, stored |-> FALSE,
                          result |-> s2.result, pre |-> topics]
    /\ UNCHANGED sideVars
    /\ UNCHANGED clusterVars

\* The engine applies a committed AddMember.
CallAddMember(id, address) ==
    /\ fsmStatus = "running"
    /\ LET r == AddMember(members, [NodeId |-> id, Address |-> address])
       IN  /\ members' = r.members
           /\ lastCall' = [NoCall EXCEPT !.kind = "AddMember", !.arg = id,
                                         !.pre = members,
                                         !.result = r.result]
    /\ UNCHANGED <<topics, dirs, fsmStatus, created, lastFsm, replica>>
    /\ UNCHANGED clusterVars

\* The engine applies a committed RemoveMember.
CallRemoveMember(id) ==
    /\ fsmStatus = "running"
    /\ LET r == RemoveMember(members, [NodeId |-> id])
       IN  /\ members' = r.members
           /\ lastCall' = [NoCall EXCEPT !.kind = "RemoveMember", !.arg = id,
                                         !.pre = members,
                                         !.result = r.result]
    /\ UNCHANGED <<topics, dirs, fsmStatus, created, lastFsm, replica>>
    /\ UNCHANGED clusterVars

\* The engine takes a snapshot of this nodeState and restores a fresh
\* instance from it.
CallRestore ==
    /\ fsmStatus = "running"
    /\ LET blob == Persist(Snapshot(NodeState))
           s2 == Restore(FreshNodeState, blob)
       IN  /\ replica' = s2
           /\ lastCall' = [NoCall EXCEPT !.kind = "Restore", !.pre = topics,
                                         !.result = s2.result]
    /\ UNCHANGED <<topics, dirs, fsmStatus, created, lastFsm, members>>
    /\ UNCHANGED clusterVars

FsmNext ==
    \/ \E t \in TopicNames, n \in -1..MaxPartitions, ok \in BOOLEAN :
           CallCreateTopic(t, n, ok)
    \/ \E t \in TopicNames, msgs \in MessageLists : CallPublish(t, msgs)
    \/ \E l \in LogEntries : CallApply(l)
    \/ CallRestore

FsmSpec == Init /\ [][FsmNext]_vars

(***************************************************************************)
(* Two instances of nodeState, on two nodes, given the same calls in the   *)
(* same order.  Each node has its own file system: os.Mkdir answers for    *)
(* each of them separately.                                                *)
(***************************************************************************)
PairCreateTopic(t, n, mkdirOk1, mkdirOk2) ==
    /\ fsmStatus = "running"
    /\ replica.status = "running"
    /\ LET req == [Topic |-> t, Partitions |-> n]
           s1 == CreateTopic(NodeState, req, mkdirOk1)
           s2 == CreateTopic([replica EXCEPT !.result = "none"], req, mkdirOk2)
           stored == ~MapHas(topics, t) /\ MapHas(s1.topics, t)
       IN  /\ topics' = s1.topics
           /\ dirs' = s1.dirs
           /\ fsmStatus' = s1.status
           /\ created' = IF stored THEN MapSet(created, t, n) ELSE created
           /\ lastFsm' = [kind |-> "CreateTopic", topic |-> t, count |-> n,
                          existed |-> MapHas(topics, t), stored |-> stored,
                          result |-> s1.result, pre |-> topics]
           /\ replica' = s2
           /\ lastCall' = [NoCall EXCEPT !.kind = "PairCreateTopic",
                                         !.arg = t, !.pre = replica.topics,
                                         !.result = s2.result]
    /\ UNCHANGED members
    /\ UNCHANGED clusterVars

PairPublish(t, msgs) ==
    /\ fsmStatus = "running"
    /\ replica.status = "running"
    /\ LET req == [Topic |-> t, Messages |-> msgs]
           s1 == Publish(NodeState, req)
           s2 == Publish([replica EXCEPT !.result = "none"], req)
       IN  /\ topics' = s1.topics
           /\ dirs' = s1.dirs
           /\ fsmStatus' = s1.status
           /\ created' = created
           /\ lastFsm' = [kind |-> "Publish", topic |-> t,
                          count |-> Len(msgs),
                          existed |-> MapHas(topics, t), stored |-> FALSE,
                          result |-> s1.result, pre |-> topics]
           /\ replica' = s2
           /\ lastCall' = [NoCall EXCEPT !.kind = "PairPublish",
                                         !.arg = t, !.pre = replica.topics,
                                         !.result = s2.result]
    /\ UNCHANGED members
    /\ UNCHANGED clusterVars

\* The engine of each node applies the same committed entry.
PairApply(l) ==
    /\ fsmStatus = "running"
    /\ replica.status = "running"
    /\ LET s1 == Apply(NodeState, l)
           s2 == Apply([replica EXCEPT !.result = "none"], l)
       IN  /\ topics' = s1.topics
           /\ dirs' = s1.dirs
           /\ fsmStatus' = s1.status
           /\ created' = created
           /\ lastFsm' = [kind |-> "Apply", topic |-> l.kind, count |-> 0,
                          existed |-> FALSE, stored |-> FALSE,
                          result |-> s1.result, pre |-> topics]
           /\ replica' = s2
           /\ lastCall' = [NoCall EXCEPT !.kind = "PairApply",
                                         !.arg = l.kind, !.pre = replica.topics,
                                         !.result = s2.result]
    /\ UNCHANGED members
    /\ UNCHANGED clusterVars

PairNext ==
    \/ \E t \in TopicNames, n \in 0..MaxPartitions, ok1, ok2 \in BOOLEAN :
           PairCreateTopic(t, n, ok1, ok2)
    \/ \E t \in TopicNames, msgs \in MessageLists : PairPublish(t, msgs)
    \/ \E l \in LogEntries : PairApply(l)

PairSpec == Init /\ [][PairNext]_vars

(***************************************************************************)
(* The RPCs of a node whose topics were made by CreateTopic.               *)
(***************************************************************************)
CallRpcPublishMessages(t, msgs, submit) ==
    /\ fsmStatus = "running"
    /\ LET r == PublishMessages(NodeState, [Topic |-> t, Messages |-> msgs],
                                submit)
       IN  /\ topics' = r.st.topics
           /\ dirs' = r.st.dirs
           /\ fsmStatus' = r.st.status
           /\ lastCall' = [kind |-> "PublishMessages", arg |-> t,
                           pre |-> topics, result |-> r.st.result,
                           submit |-> r.submit, payload |-> r.payload,
                           err |-> r.err, outcome |-> r.outcome,
                           changed |-> (r.st.topics # topics
                                        \/ r.st.status # fsmStatus)]
    /\ UNCHANGED <<created, lastFsm, members, replica>>
    /\ UNCHANGED clusterVars

CallRpcCreateTopic(t, n, submit, mkdirOk) ==
    /\ fsmStatus = "running"
    /\ LET r == RpcCreateTopic(NodeState,
                               [Topic |-> t, NumPartitions |-> n],
                               submit, mkdirOk)
       IN  /\ topics' = r.st.topics
           /\ dirs' = r.st.dirs
           /\ fsmStatus' = r.st.status
           /\ lastCall' = [kind |-> "CreateTopic", arg |-> t,
                           pre |-> topics, result |-> r.st.result,
                           submit |-> r.submit, payload |-> r.payload,
                           err |-> r.err, outcome |-> r.outcome,
                           changed |-> (r.st.topics # topics
                                        \/ r.st.status # fsmStatus)]
    /\ UNCHANGED <<created, lastFsm, members, replica>>
    /\ UNCHANGED clusterVars

RpcNext ==
    \/ \E t \in TopicNames, n \in 0..MaxPartitions, ok \in BOOLEAN :
           CallCreateTopic(t, n, ok)
    \/ \E t \in TopicNames, msgs \in MessageLists, sub \in SubmitResults :
           CallRpcPublishMessages(t, msgs, sub)
    \/ \E t \in TopicNames, n \in 0..MaxPartitions, sub \in SubmitResults,
          ok \in BOOLEAN :
           CallRpcCreateTopic(t, n, sub, ok)

RpcSpec == Init /\ [][RpcNext]_vars

\* The membership commands in any order.
MemberNext ==
    \/ \E id \in NodeIds : \E a \in AddressesOf(id) : CallAddMember(id, a)
    \/ \E id \in NodeIds : CallRemoveMember(id)

MemberSpec == Init /\ [][MemberNext]_vars


(***************************************************************************)
(* Properties of the reconciler.                                           *)
(***************************************************************************)
\* The steps of the latest handler that name id with operation op.
StepsOf(op, id) ==
    {i \in 1..Len(last.trace) : last.trace[i].op = op /\ last.trace[i].id = id}

JoinedUnknown ==
    /\ last.obs.type = "PeerObservation"
    /\ ~last.obs.Removed
    /\ last.obs.ID # ""
    /\ ~MapHas(last.preMap, last.obs.ID)

RemovedKnown ==
    /\ last.obs.type = "PeerObservation"
    /\ last.obs.Removed
    /\ MapHas(last.preMap, last.obs.ID)

\* C1: after a peer-joined observation for a peer that was not in the member
\* map, the map holds the peer only if the handler's AddMember was confirmed
\* before the map was written: never while the submission has failed.
C1_MapGainsPeerOnlyAfterCommit ==
    (JoinedUnknown /\ MapHas(memberMap, last.obs.ID)) =>
        \E i \in StepsOf("AddMember", last.obs.ID) :
            /\ Confirmed(last.trace[i].res)
            /\ \A j \in StepsOf("Set", last.obs.ID) : i < j

\* C2: after a peer-removed observation, the peer is gone from the member
\* map only if the handler's RemoveMember was confirmed before the deletion;
\* when the submission failed the peer is still in the map.
C2_RemoveFailureKeepsPeer ==
    (RemovedKnown /\ ~MapHas(memberMap, last.obs.ID)) =>
        \E i \in StepsOf("RemoveMember", last.obs.ID) :
            /\ Confirmed(last.trace[i].res)
            /\ \A j \in StepsOf("Del", last.obs.ID) : i < j

\* C3 (its count): since a peer joined, the node has made at most one
\* configuration removal and issued at most one RemoveMember for it.
C3_ExactlyOneRemoval ==
    \A p \in Peers :
        ledger[p].cfgRemovals <= 1 /\ ledger[p].removeMembers <= 1

\* C4: once every observation has been delivered and handled, a peer is in
\* the member map if and only if it is in the configuration or it has left
\* the configuration and no RemoveMember for it has been committed since.
C4_MapIffConfigured ==
    (raftChan = <<>> /\ ~missed) =>
        \A p \in Peers :
            MapHas(memberMap, p) <=> (p \in servers \/ ledger[p].departed)

\* C6: a failed-heartbeat observation at most 10 seconds old changes neither
\* the configuration nor the member map, and the handler deletes the peer
\* and issues RemoveMember only after its RemoveServer has succeeded.
C6_DetectorThresholdAndOrder ==
    last.obs.type = "FailedHeartbeatObservation" =>
        /\ last.elapsed <= 10 =>
               /\ servers = last.configured
               /\ memberMap = last.preMap
               /\ last.trace = <<>>
        /\ (servers # last.configured \/ memberMap # last.preMap) =>
               last.elapsed > 10
        /\ \A i \in 1..Len(last.trace) :
               last.trace[i].op \in {"RemoveMember", "Del"} =>
                   \E j \in 1..(i - 1) :
                       last.trace[j] =
                           Step("RemoveServer", last.trace[i].id, "ok")

\* A failed heartbeat past the threshold whose removal went through: the
\* server left the configuration, then the map, then RemoveMember was sent.
C6_Witness ==
    /\ last.obs.type = "FailedHeartbeatObservation"
    /\ last.elapsed > 10
    /\ last.obs.PeerID \in last.configured
    /\ last.obs.PeerID \notin servers
    /\ MapHas(last.preMap, last.obs.PeerID)
    /\ ~MapHas(memberMap, last.obs.PeerID)
    /\ StepsOf("RemoveMember", last.obs.PeerID) # {}

\* The boundary of C6 is reached too: an observation exactly 10 seconds old.
C6_AtThreshold ==
    /\ last.obs.type = "FailedHeartbeatObservation"
    /\ last.elapsed = 10
    /\ MapHas(memberMap, last.obs.PeerID)

\* C7: after a leader-changed observation naming a leader that is neither
\* this node nor in the member map, every configured server that was missing
\* from the map is in it, put there by an AddMember command and not by a
\* write of the handler.
C7_BackfillThroughAddMember ==
    (/\ last.obs.type = "LeaderObservation"
     /\ last.obs.LeaderID # Self
     /\ ~MapHas(last.preMap, last.obs.LeaderID)) =>
        \A x \in last.configured \ DOMAIN last.preMap :
            /\ MapHas(memberMap, x)
            /\ StepsOf("AddMember", x) # {}
            /\ StepsOf("Set", x) = {}

(***************************************************************************)
(* Liveness of the failure detector.                                       *)
(***************************************************************************)
OutOfContact(p) == now - lastContact[p] > HeartbeatThreshold

\* The engine's heartbeat to a silent, configured peer fails again and the
\* observation finds room on the channel.
EmitStale(p) ==
    /\ OutOfContact(p)
    /\ Len(raftChan) < MaxChan
    /\ EngineFailedHeartbeat(p)

\* The reconciler handles a failed heartbeat of p past the threshold and the
\* engine accepts the configuration change.
HandleStaleOk(p) ==
    /\ raftChan # <<>>
    /\ Head(raftChan).type = "FailedHeartbeatObservation"
    /\ Head(raftChan).PeerID = p
    /\ now - Head(raftChan).LastContact > HeartbeatThreshold
    /\ \E ar \in ApplyResults, seen \in BOOLEAN : Handle("ok", ar, seen)

\* The loop of onRaftUpdates never stops iterating; the engine keeps
\* heartbeating a configured peer; RemoveServer does not fail for ever.
Fairness ==
    /\ WF_vars(onRaftUpdates)
    /\ \A p \in Peers : SF_vars(EmitStale(p)) /\ SF_vars(HandleStaleOk(p))

\* The engine's events that bear on the failure detector: joins, removals,
\* heartbeats and the clock.
LiveNext ==
    \/ onRaftUpdates
    \/ \E p \in Peers : EngineAddServer(p)
    \/ \E p \in Peers : EngineRemoveServer(p)
    \/ \E p \in Peers : EngineFailedHeartbeat(p)
    \/ \E p \in Peers : EngineContact(p)
    \/ Tick

LiveSpec == Init /\ [][LiveNext]_vars /\ Fairness

\* The peer answered again or rejoined, or it is out of the configuration
\* and, if this node removed it, out of the member map as well.
Settled(p) ==
    \/ ~OutOfContact(p)
    \/ /\ p \notin servers
       /\ \/ ~MapHas(GetShardInfo.MemberAddressMap, p)
          \/ ledger[p].cfgRemovals = 0

C8_DuplicateCreateRejected ==
    (/\ lastFsm.kind = "CreateTopic"
     /\ lastFsm.existed
     /\ Len(lastFsm.pre[lastFsm.topic].partitions) > 0) =>
        /\ topics = lastFsm.pre
        /\ lastFsm.result # Nil

Max0(n) == IF n > 0 THEN n ELSE 0

\* C9: a topic stored by CreateTopic(t, n) has from then on exactly n
\* partitions (none for n < 0), numbered 0..n-1 in order, and they have
\* offset 0 when the topic is stored.
C9_PartitionsContiguous ==
    /\ \A t \in DOMAIN created :
           /\ MapHas(topics, t)
           /\ Len(topics[t].partitions) = Max0(created[t])
           /\ \A i \in 1..Len(topics[t].partitions) :
                  /\ topics[t].partitions[i].num = i - 1
                  /\ topics[t].partitions[i].topic = t
    /\ lastFsm.stored =>
           \A i \in 1..Len(topics[lastFsm.topic].partitions) :
               topics[lastFsm.topic].partitions[i].offset = 0

\* A topic stored with the most partitions, after a later Publish to it.
C9_Witness ==
    /\ lastFsm.kind = "Publish"
    /\ lastFsm.count > 0
    /\ MapHas(created, lastFsm.topic)
    /\ created[lastFsm.topic] = MaxPartitions
    /\ MapHas(topics, lastFsm.topic)
    /\ Len(topics[lastFsm.topic].partitions) = MaxPartitions

\* C10: a Publish of k messages to a topic that has partitions advances the
\* offsets of the topic's partitions by k in all, one per message.
C10_PublishAdvancesOffsets ==
    (/\ lastFsm.kind = "Publish"
     /\ lastFsm.existed
     /\ Len(lastFsm.pre[lastFsm.topic].partitions) > 0) =>
        SumOffsets(topics[lastFsm.topic].partitions) =
            SumOffsets(lastFsm.pre[lastFsm.topic].partitions) + lastFsm.count

\* C11: a Publish for a topic that does not exist returns an UnknownTopic
\* result, not the nil of a success, and leaves the topic table with all its
\* partition offsets as it was.
C11_PublishUnknownTopic ==
    (lastFsm.kind = "Publish" /\ ~lastFsm.existed) =>
        /\ lastFsm.result # Nil
        /\ topics = lastFsm.pre

\* The entries of the membership table that name node id.
EntriesFor(m, id) == {k \in DOMAIN m : m[k].NodeId = id}

\* C12: an AddMember(X) applied when X is present leaves exactly one entry
\* for X and the other entries as they were; a RemoveMember(Y) applied when
\* Y is absent leaves the table unchanged; neither returns an error.
C12_MembershipIdempotent ==
    /\ (lastCall.kind = "AddMember" /\ MapHas(lastCall.pre, lastCall.arg)) =>
           /\ Cardinality(EntriesFor(members, lastCall.arg)) = 1
           /\ DOMAIN members = DOMAIN lastCall.pre
           /\ \A k \in DOMAIN members \ {lastCall.arg} :
                  members[k] = lastCall.pre[k]
           /\ lastCall.result = "AddMemberResult"
    /\ (lastCall.kind = "RemoveMember"
          /\ ~MapHas(lastCall.pre, lastCall.arg)) =>
           /\ members = lastCall.pre
           /\ lastCall.result = "RemoveMemberResult"

\* The same AddMember applied a second time, beside another member.
C12_Witness ==
    /\ lastCall.kind = "AddMember"
    /\ MapHas(lastCall.pre, lastCall.arg)
    /\ members = lastCall.pre
    /\ Cardinality(DOMAIN members) > 1

\* A RemoveMember of an absent node is reached as well.
C12_RemoveAbsent ==
    /\ lastCall.kind = "RemoveMember"
    /\ ~MapHas(lastCall.pre, lastCall.arg)
    /\ lastCall.pre # EmptyMap

\* C13: two instances of the state machine that were given the same calls
\* in the same order have the same topic table (topics, partitions,
\* offsets), and their latest call returned the same result on both.
C13_Deterministic ==
    lastCall.kind \in {"PairCreateTopic", "PairPublish", "PairApply"} =>
        /\ replica.topics = topics
        /\ replica.status = fsmStatus
        /\ lastCall.result = lastFsm.result

\* C14: a fresh instance restored from a snapshot has the topic table (the
\* topics, their partitions and offsets) the snapshot was taken of.
C14_SnapshotRoundTrip ==
    lastCall.kind = "Restore" => replica.topics = lastCall.pre

\* C15: Apply stops the shard exactly when the entry does not decode: after
\* an entry that does not decode the state machine no longer runs, and after
\* a well-formed entry it still does.
C15_HaltIffDecodeFails ==
    lastFsm.kind = "Apply" =>
        (fsmStatus # "running" <=> lastFsm.topic = "garbage")

\* The latest call was an RPC.
IsRpc == lastCall.kind \in {"PublishMessages", "CreateTopic"}

\* The state machine has to reject the RPC's command: a CreateTopic of a
\* topic that exists, a Publish to a topic that does not.
Rejected ==
    \/ lastCall.kind = "CreateTopic" /\ MapHas(lastCall.pre, lastCall.arg)
    \/ lastCall.kind = "PublishMessages"
         /\ ~MapHas(lastCall.pre, lastCall.arg)

\* C16: an RPC whose command was committed and rejected by the state
\* machine returns to its caller, with an error and not with success.
C16_RejectionReachesCaller ==
    (IsRpc /\ lastCall.submit = "ok" /\ Rejected) =>
        /\ lastCall.outcome = "returned"
        /\ lastCall.err \notin {Nil, "none"}

\* C17: an RPC whose submission to the engine failed returns to its caller
\* an error marked retriable and no payload, and leaves the state machine
\* as it was.
C17_SubmitFailureRetriable ==
    (IsRpc /\ lastCall.submit \in SubmitFailures) =>
        /\ lastCall.outcome = "returned"
        /\ IsRetriable(lastCall.err)
        /\ lastCall.payload = Nil
        /\ ~lastCall.changed

\* A PublishMessages to an existing topic whose submission timed out.
C17_Witness ==
    /\ lastCall.kind = "PublishMessages"
    /\ lastCall.submit = "ErrEnqueueTimeout"
    /\ MapHas(topics, lastCall.arg)
    /\ lastCall.err = MarkRetriable("ErrEnqueueTimeout")

\* A CreateTopic that is not on the leader is reached as well.
C17_CreateTopicNotLeader ==
    /\ lastCall.kind = "CreateTopic"
    /\ lastCall.submit = "ErrNotLeader"
    /\ lastCall.err = MarkRetriable("ErrNotLeader")

\* C18: applying a CreateConsumer or a Consume entry returns a result tagged
\* unimplemented, changes no table and leaves the state machine running.
C18_ReservedUnimplemented ==
    (lastFsm.kind = "Apply"
      /\ lastFsm.topic \in {"CreateConsumer", "Consume"}) =>
        /\ lastFsm.result = "Unimplemented"
        /\ topics = lastFsm.pre
        /\ fsmStatus = "running"

(***************************************************************************)
(* The reconciler task at shutdown.                                        *)
(***************************************************************************)
\* The engine's events up to and including the change of its state to
\* Shutdown, and the loop, which the scheduler keeps running.
StopNext ==
    \/ onRaftUpdates
    \/ \E p \in Peers : EngineAddServer(p)
    \/ \E l \in NodeIds : EngineLeaderChange(l)
    \/ \E o \in {RequestVoteRequest} \cup {RaftState(s) : s \in RaftStates} :
           EngineOther(o)

StopSpec == Init /\ [][StopNext]_vars /\ WF_vars(onRaftUpdates)

\* The reconciler has been told of the shutdown.
ShutdownHandled ==
    last.obs.type = "RaftState" /\ last.obs.state = "Shutdown"

\* C19: once the shard has shut down and the reconciler has handled the
\* Shutdown state, its task eventually stops and its observer is released.
C19_ShutdownStopsReconciler ==
    ShutdownHandled ~> (loop = "stopped" /\ observer = "released")

(***************************************************************************)
(* Retries of the reconciler.                                              *)
(***************************************************************************)
\* The engine observes a configured peer again (it does for every peer when
\* it starts replicating to it anew).
EngineReobserve(p) ==
    /\ p \in servers
    /\ Emit(raftChan, PeerObservation(p, FALSE))
    /\ last' = NoLast
    /\ UNCHANGED <<memberMap, leader, memberInfo, servers, lastContact, now,
                   ledger>>
    /\ UNCHANGED taskVars
    /\ UNCHANGED fsmVars

\* A node none of whose submissions goes through (Raft.Apply answers with
\* ErrNotLeader or a timeout): every AddMember and RemoveMember it issues
\* fails.
RetryNext ==
    \/ \E rs \in RemoveResults, seen \in BOOLEAN : Handle(rs, "raftErr", seen)
    \/ Idle
    \/ \E p \in Peers : EngineAddServer(p)
    \/ \E p \in Peers : EngineReobserve(p)
    \/ \E p \in Peers : EngineRemoveServer(p)
    \/ \E p \in Peers : EngineFailedHeartbeat(p)
    \/ Tick

RetrySpec == Init /\ [][RetryNext]_vars

\* C20: on a node whose AddMember submissions have all failed, a
\* peer-joined observation for a peer whose AddMember failed before (the
\* peer is in the member map all the same) issues AddMember again.
C20_FailedAddMemberRetried ==
    (/\ last.obs.type = "PeerObservation"
     /\ ~last.obs.Removed
     /\ last.obs.ID \in Peers
     /\ MapHas(last.preMap, last.obs.ID)) =>
        StepsOf("AddMember", last.obs.ID) # {}

(***************************************************************************)
(* The engine's emission and the leader flags.                             *)
(***************************************************************************)
\* C21: in every state, whatever waits on the channel and whatever the
\* reconciler has just done, the engine can emit: a vote request, a state
\* change, and a leader change or a failed heartbeat of a configured server.
C21_EmitNeverBlocked ==
    /\ \A o \in {RequestVoteRequest} \cup {RaftState(x) : x \in RaftStates} :
           ENABLED EngineOther(o)
    /\ \A l \in servers : ENABLED EngineLeaderChange(l)
    /\ \A q \in servers \cap Peers : ENABLED EngineFailedHeartbeat(q)

\* The channel is full and the engine has emitted on a full channel.
C21_Witness ==
    /\ Len(raftChan) = MaxChan
    /\ missed

\* C22: after a leader-changed observation has been handled, this node's
\* IsLeader flag is true exactly if the recorded leader is this node, and
\* the recorded leader is the one the observation named.
C22_LeaderFlagMatchesLeader ==
    last.obs.type = "LeaderObservation" =>
        /\ memberInfo.IsLeader <=> (leader = memberInfo.NodeId)
        /\ leader = last.obs.LeaderID

\* Another node took over from this node: the flag was set and is cleared.
C22_Witness ==
    /\ last.obs.type = "LeaderObservation"
    /\ last.obs.LeaderID # Self
    /\ MapHas(last.preMap, last.obs.LeaderID)
    /\ leader = last.obs.LeaderID
    /\ ~memberInfo.IsLeader

\* This node became leader: the flag is set.
C22_SelfLeader ==
    /\ last.obs.type = "LeaderObservation"
    /\ last.obs.LeaderID = Self
    /\ memberInfo.IsLeader

\* The entries of the member map that have IsLeader set.
LeaderEntries == {x \in DOMAIN memberMap : memberMap[x].IsLeader}

\* C23: at most one entry of the member map has IsLeader set, and one that
\* has is the entry of the recorded leader.
C23_SingleLeaderEntry ==
    /\ Cardinality(LeaderEntries) <= 1
    /\ \A x \in LeaderEntries : x = leader

=============================================================================
